---- MODULE Spec2Model ----
(***************************************************************************)
(* Threshold selection of skimage/filter/thresholding.py.                  *)
(*                                                                         *)
(* The global selectors (threshold_otsu, threshold_yen, threshold_isodata) *)
(* work on the histogram of the image; the local engines (_mean_std,       *)
(* threshold_niblack, threshold_sauvola, threshold_adaptive) work on the   *)
(* image.  Every function is pure: a call is one action that takes the     *)
(* machine from "idle" to "done" and leaves its outcome in `result`.       *)
(*                                                                         *)
(* Floating point values are modelled by exact numbers: rationals          *)
(* [num, den] for the histogram arithmetic, and numbers (a + b*sqrt(d))/c  *)
(* for the local thresholds, which hold a standard deviation.  0/0 is the  *)
(* NaN numpy produces.  Integer arrays keep their width (uint8 binnums).   *)
(***************************************************************************)
EXTENDS Integers, Sequences, FiniteSets, TLC

VARIABLES
    image,        \* the input image: [h, w, px], px[<<i, j>>] an integer
    hist,         \* histogram(image, nbins)[0]: the counts
    bin_centers,  \* histogram(image, nbins)[1]: the bin centers
    pc,           \* "idle" (no call in progress) or "done" (a call returned)
    call,         \* the function called and its arguments
    result,       \* what the call returned or raised
    trace         \* the arrays the call allocated / computed, in order

vars == <<image, hist, bin_centers, pc, call, result, trace>>

----------------------------------------------------------------------------
(* Bounds of the model.                                                    *)

MaxBins == 4        \* dense histograms have 1..MaxBins bins
MaxCount == 2       \* a bin of a dense histogram holds 0..MaxCount pixels
MaxCenter == 3      \* bin centers of a dense histogram lie in -1..MaxCenter
ExtraBins == 2      \* wide histograms have UINT8_RANGE+1 .. UINT8_RANGE+ExtraBins bins
MaxPix == 2         \* pixel intensities lie in 0..MaxPix
MaxSpots == 2       \* pixels that differ from the background, for _mean_std

(* np.uint8 holds 0..255: np.arange(n, dtype=np.uint8) wraps at 256.       *)
UINT8_RANGE == 256

----------------------------------------------------------------------------
(* Exact rational arithmetic standing for the float arithmetic.            *)

Abs(x) == IF x < 0 THEN 0 - x ELSE x

RECURSIVE gcd(_, _)
gcd(a, b) == IF b = 0 THEN a ELSE gcd(b, a % b)

Rat(n, d) ==
    LET g == gcd(Abs(n), Abs(d))
        s == IF d < 0 THEN 0 - 1 ELSE 1
    IN  IF g = 0 THEN [num |-> 0, den |-> 1]
        ELSE [num |-> s * (n \div g), den |-> s * (d \div g)]

RInt(n) == [num |-> n, den |-> 1]
RAdd(x, y) == Rat(x.num * y.den + y.num * x.den, x.den * y.den)
RSub(x, y) == Rat(x.num * y.den - y.num * x.den, x.den * y.den)
RMul(x, y) == Rat(x.num * y.num, x.den * y.den)
RDiv(x, y) == Rat(x.num * y.den, x.den * y.num)
RLt(x, y) == x.num * y.den < y.num * x.den
RLe(x, y) == x.num * y.den <= y.num * x.den

(* numpy's round(): to the nearest integer, halves to the even one.        *)
Round(x) ==
    LET fl == x.num \div x.den
        r2 == 2 * (x.num - fl * x.den)
    IN  IF r2 > x.den THEN fl + 1
        ELSE IF r2 < x.den THEN fl
        ELSE IF fl % 2 = 0 THEN fl ELSE fl + 1

----------------------------------------------------------------------------
(* numpy array helpers on sequences (index 1 is numpy's index 0).          *)

Reverse(x) == [i \in 1..Len(x) |-> x[Len(x) + 1 - i]]

(* Arrays are built by halving, so that the depth of the evaluation stays   *)
(* logarithmic in the number of bins.                                      *)
RECURSIVE cumsum_range(_, _, _)
cumsum_range(x, lo, hi) ==
    IF lo > hi THEN <<>>
    ELSE IF lo = hi THEN <<x[lo]>>
    ELSE LET mid == (lo + hi) \div 2
             L == cumsum_range(x, lo, mid)
             R == cumsum_range(x, mid + 1, hi)
             t == L[Len(L)]
         IN  L \o [i \in 1..Len(R) |-> RAdd(t, R[i])]

(* np.cumsum(x)                                                            *)
cumsum(x) == cumsum_range(x, 1, Len(x))

(* np.cumsum(x[::-1])[::-1]                                                *)
cumsum_rev(x) ==
    LET r == cumsum(Reverse(x)) IN Reverse(r) \o <<>>

astype_float(x) == [i \in 1..Len(x) |-> RInt(x[i])]

(* np.argmax: the index of the first maximum; an empty array has none.     *)
RECURSIVE argmax_range(_, _, _)
argmax_range(x, lo, hi) ==
    IF lo = hi THEN lo
    ELSE LET mid == (lo + hi) \div 2
             a == argmax_range(x, lo, mid)
             b == argmax_range(x, mid + 1, hi)
         IN  IF RLt(x[a], x[b]) THEN b ELSE a

(* A scan that keeps the last maximum instead of the first.                *)
RECURSIVE argmax_last_range(_, _, _)
argmax_last_range(x, lo, hi) ==
    IF lo = hi THEN lo
    ELSE LET mid == (lo + hi) \div 2
             a == argmax_last_range(x, lo, mid)
             b == argmax_last_range(x, mid + 1, hi)
         IN  IF RLe(x[a], x[b]) THEN b ELSE a

argmax_last(x) == argmax_last_range(x, 1, Len(x))

argmax(x) == argmax_range(x, 1, Len(x))

Value(v) == [kind |-> "value", value |-> v]
Raised(e) == [kind |-> e, value |-> 0]
NoResult == [kind |-> "none", value |-> 0]

----------------------------------------------------------------------------
(* The histogram provider, skimage.exposure.histogram(image, nbins): the   *)
(* counts and the strictly increasing bin centers.  The bins span the      *)
(* image's minimum to its maximum, so the first and the last bin hold at   *)
(* least one pixel, and an image of one intensity yields one bin.          *)

Centers == (0 - 1)..MaxCenter

DenseHistograms ==
    UNION { { [counts |-> h, centers |-> c] :
                h \in { f \in [1..n -> 0..MaxCount] : f[1] >= 1 /\ f[n] >= 1 },
                c \in { f \in [1..n -> Centers] :
                            \A i \in 1..(n - 1) : f[i] < f[i + 1] } } :
            n \in 1..MaxBins }

(* Histograms of more than 256 bins (a 16-bit image): the intensities      *)
(* 0..n-1, pixels at both ends and at no or one bin in between.            *)
SparseCounts == 1..2
WideMids == {1, 128, 255, 256}

WideCounts(n, c0, m, cm, cl) ==
    [i \in 1..n |-> IF i = 1 THEN c0
                    ELSE IF i = n THEN cl
                    ELSE IF i = m + 1 THEN cm ELSE 0]

WideHistograms ==
    UNION { { [counts |-> WideCounts(n, c0, m, cm, cl),
               centers |-> [i \in 1..n |-> i - 1]] :
                c0 \in SparseCounts, cl \in SparseCounts,
                m \in { x \in WideMids : x < n - 1 }, cm \in 0..1 } :
            n \in (UINT8_RANGE + 1)..(UINT8_RANGE + ExtraBins) }

histogram == DenseHistograms \cup WideHistograms

----------------------------------------------------------------------------
(* threshold_otsu                                                          *)

weight1(h) == cumsum(astype_float(h))
weight2(h) == cumsum_rev(astype_float(h))

hist_times_centers(h, c) == [i \in 1..Len(h) |-> RInt(h[i] * c[i])]

mean1(h, c) ==
    LET s == cumsum(hist_times_centers(h, c))
        w == weight1(h)
    IN  [i \in 1..Len(h) |-> RDiv(s[i], w[i])] \o <<>>

mean2(h, c) ==
    LET s == cumsum_rev(hist_times_centers(h, c))
        w == weight2(h)
    IN  [i \in 1..Len(h) |-> RDiv(s[i], w[i])] \o <<>>

(* weight1[:-1] * weight2[1:] * (mean1[:-1] - mean2[1:]) ** 2              *)
variance12(h, c) ==
    LET w1 == weight1(h)
        w2 == weight2(h)
        m1 == mean1(h, c)
        m2 == mean2(h, c)
        sq(d) == RMul(d, d)
    IN  [k \in 1..(Len(h) - 1) |->
            RMul(RMul(w1[k], w2[k + 1]), sq(RSub(m1[k], m2[k + 1])))] \o <<>>

(* The threshold read from bin_centers[1:] instead of bin_centers[:-1].    *)
threshold_otsu_upper(h, c) ==
    LET v == variance12(h, c)
    IN  IF Len(v) = 0 THEN Raised("ValueError")
        ELSE Value(SubSeq(c, 2, Len(c))[argmax(v)])

(* np.argmax of an empty array raises ValueError; bin_centers[:-1][idx].   *)
threshold_otsu(h, c) ==
    LET v == variance12(h, c)
    IN  IF Len(v) = 0 THEN Raised("ValueError")
        ELSE Value(SubSeq(c, 1, Len(c) - 1)[argmax(v)])

----------------------------------------------------------------------------
(* threshold_yen                                                           *)

hist_sum(h) == weight1(h)[Len(h)]

pmf_yen(h) ==
    LET t == hist_sum(h)
    IN  [i \in 1..Len(h) |-> RDiv(RInt(h[i]), t)] \o <<>>

(* The argument of np.log in crit; log is increasing, so crit.argmax() is  *)
(* the argmax of its argument.                                             *)
crit(h) ==
    LET pmf == pmf_yen(h)
        sq == [i \in 1..Len(h) |-> RMul(pmf[i], pmf[i])] \o <<>>
        P1 == cumsum(pmf)
        P1_sq == cumsum(sq)
        P2_sq == cumsum_rev(sq)
        sqr(a) == RMul(a, a)
    IN  [k \in 1..(Len(h) - 1) |->
            RMul(RDiv(RInt(1), RMul(P1_sq[k], P2_sq[k + 1])),
                 sqr(RMul(P1[k], RSub(RInt(1), P1[k]))))] \o <<>>

threshold_yen(h, c) ==
    IF Len(c) = 1 THEN Value(c[1])
    ELSE LET cr == crit(h) IN Value(c[argmax(cr)])

----------------------------------------------------------------------------
(* threshold_isodata                                                       *)

(* np.arange(pmf.size, dtype=np.uint8)                                     *)
binnums(n) == [i \in 1..n |-> (i - 1) % UINT8_RANGE]

(* l, h and allmean = (l + h) / 2.0, for the bin numbers b.                *)
allmean_of(h, b) ==
    LET cpmfl == weight1(h)
        cpmfh == weight2(h)
        pb == [i \in 1..Len(h) |-> RInt(h[i] * b[i])]
        sl == cumsum(pb)
        sh == cumsum_rev(pb)
    IN  [k \in 1..Len(h) |->
            RDiv(RAdd(RDiv(sl[k], cpmfl[k]), RDiv(sh[k], cpmfh[k])),
                 RInt(2))] \o <<>>

allmean(h) == allmean_of(h, binnums(Len(h)))

(* The rounded mean compared with the one-based position of the bin.       *)
isodata_matches_onebased(h) ==
    LET am == allmean(h)
    IN  { k \in 1..Len(h) : Round(am[k]) = k }

(* np.nonzero(allmean.round() == binnums)[0]                               *)
isodata_matches(h) ==
    LET am == allmean(h)
        b == binnums(Len(h))
    IN  { k \in 1..Len(h) : Round(am[k]) = b[k] }

SetMin(S) == CHOOSE x \in S : \A y \in S : x <= y

(* [0] of an empty index array raises IndexError.                          *)
threshold_isodata(h, c) ==
    IF Len(c) = 1 THEN Value(c[1])
    ELSE LET ms == isodata_matches(h)
         IN  IF ms = {} THEN Raised("IndexError")
             ELSE Value(c[SetMin(ms)])

----------------------------------------------------------------------------
(* The selectors as a state machine over one histogram.                    *)

NoImage == [h |-> 0, w |-> 0, px |-> <<>>]

InitGlobal ==
    /\ \E hg \in histogram : hist = hg.counts /\ bin_centers = hg.centers
    /\ image = NoImage
    /\ pc = "idle"
    /\ call = [op |-> "none"]
    /\ result = NoResult
    /\ trace = <<>>

Otsu ==
    /\ pc = "idle"
    /\ pc' = "done"
    /\ call' = [op |-> "threshold_otsu"]
    /\ result' = threshold_otsu(hist, bin_centers)
    /\ UNCHANGED <<image, hist, bin_centers, trace>>

Yen ==
    /\ pc = "idle"
    /\ pc' = "done"
    /\ call' = [op |-> "threshold_yen"]
    /\ result' = threshold_yen(hist, bin_centers)
    /\ UNCHANGED <<image, hist, bin_centers, trace>>

Isodata ==
    /\ pc = "idle"
    /\ pc' = "done"
    /\ call' = [op |-> "threshold_isodata"]
    /\ result' = threshold_isodata(hist, bin_centers)
    /\ UNCHANGED <<image, hist, bin_centers, trace>>

Return ==
    /\ pc = "done"
    /\ pc' = "idle"
    /\ call' = [op |-> "none"]
    /\ result' = NoResult
    /\ trace' = <<>>
    /\ UNCHANGED <<image, hist, bin_centers>>

NextGlobal == Otsu \/ Yen \/ Isodata \/ Return

SpecGlobal == InitGlobal /\ [][NextGlobal]_vars

----------------------------------------------------------------------------
(* Numbers a + b * sqrt(root), a and b rational and root a natural number, *)
(* and the NaN that 0/0 yields: the values of the threshold surfaces.      *)

Num(a, b, root) ==
    IF b.num = 0 \/ root = 0
    THEN [nan |-> FALSE, a |-> a, b |-> RInt(0), root |-> 0]
    ELSE [nan |-> FALSE, a |-> a, b |-> b, root |-> root]

NaN == [nan |-> TRUE, a |-> RInt(0), b |-> RInt(0), root |-> 0]

NumOfRat(x) == Num(x, RInt(0), 0)
NumIsZero(x) == ~x.nan /\ x.a.num = 0 /\ x.b.num = 0

(* sqrt(n / d^2) = sqrt(n) / d                                             *)
SqrtOver(n, d) == Num(RInt(0), Rat(1, d), n)

NumAdd(x, y) ==
    IF x.nan \/ y.nan THEN NaN
    ELSE Num(RAdd(x.a, y.a), RAdd(x.b, y.b),
             IF x.root = 0 THEN y.root ELSE x.root)

NumScale(x, r) == IF x.nan THEN NaN ELSE Num(RMul(x.a, r), RMul(x.b, r), x.root)

NumSub(x, y) == NumAdd(x, NumScale(y, RInt(0 - 1)))

(* x * y where one of the two is rational.                                 *)
NumMul(x, y) ==
    IF x.nan \/ y.nan THEN NaN
    ELSE IF y.b.num = 0 THEN NumScale(x, y.a) ELSE NumScale(y, x.a)

(* x / y for y rational, or for x and y both multiples of a square root;   *)
(* 0 / 0 is NaN.                                                           *)
NumDiv(x, y) ==
    IF x.nan \/ y.nan THEN NaN
    ELSE IF NumIsZero(y) THEN NaN
    ELSE IF y.b.num = 0 THEN NumScale(x, RDiv(RInt(1), y.a))
    ELSE Num(RInt(0), RDiv(x.b, RMul(y.b, RInt(y.root))), x.root * y.root)

(* a / b > c / d for positive integers, by continued fractions: no product *)
(* is formed.                                                              *)
RECURSIVE FracGt(_, _, _, _)
FracGt(a, b, c, d) ==
    LET qa == a \div b
        qc == c \div d
        ra == a % b
        rc == c % d
    IN  IF qa # qc THEN qa > qc
        ELSE IF ra = 0 THEN FALSE
        ELSE IF rc = 0 THEN TRUE
        ELSE FracGt(d, rc, b, ra)

(* L > c * sqrt(root) for integers L, c and root >= 0.                     *)
IntGtSurd(L, c, root) ==
    IF c = 0 \/ root = 0 THEN L > 0
    ELSE IF c > 0 THEN L > 0 /\ FracGt(L, c, c * root, L)
    ELSE L >= 0 \/ FracGt((0 - c) * root, 0 - L, 0 - L, 0 - c)

lcm(a, b) == (a \div gcd(a, b)) * b

(* x > t for a rational x: a comparison with NaN is False.                 *)
NumGt(x, t) ==
    IF t.nan THEN FALSE
    ELSE LET X == RSub(x, t.a)
             m == lcm(X.den, t.b.den)
         IN  IntGtSurd(X.num * (m \div X.den), t.b.num * (m \div t.b.den), t.root)

(* x <= y for two non-negative multiples of square roots.                  *)
SurdLe(x, y) ==
    LET m == lcm(x.b.den, y.b.den)
        cx == x.b.num * (m \div x.b.den)
        cy == y.b.num * (m \div y.b.den)
    IN  IF cx = 0 \/ x.root = 0 THEN TRUE
        ELSE IF cy = 0 \/ y.root = 0 THEN FALSE
        ELSE ~FracGt(cx * x.root, cy, cy * y.root, cx)

----------------------------------------------------------------------------
(* Two-dimensional arrays: [h, w, px] with px[<<i, j>>] for 0 <= i < h and *)
(* 0 <= j < w.  An image also has a unit: its pixel <<i, j>> has the       *)
(* intensity px[<<i, j>>] / unit (unit 1 for the input, 255 for the image  *)
(* normalized by image.astype(np.float) / 255.).                           *)

Idx(a) == (0..(a.h - 1)) \X (0..(a.w - 1))

Array(h, w, f) == [h |-> h, w |-> w, px |-> f]

RECURSIVE SumFn(_, _)
SumFn(f, hi) == IF hi < 0 THEN 0 ELSE f[hi] + SumFn(f, hi - 1)

(* skimage.transform.integral_image: the two-dimensional running sum.      *)
integral_image(a) ==
    Array(a.h, a.w,
          [p \in Idx(a) |->
              SumFn([i \in 0..p[1] |->
                        SumFn([j \in 0..p[2] |-> a.px[<<i, j>>]], p[2])], p[1])])

(* np.vstack and np.hstack of a row and a column of zeros before I.        *)
pad_top_left(I) ==
    Array(I.h + 1, I.w + 1,
          [p \in (0..I.h) \X (0..I.w) |->
              IF p[1] = 0 \/ p[2] = 0 THEN 0 ELSE I.px[<<p[1] - 1, p[2] - 1>>]])

(* kern allocated with np.zeros((w, w)): one row and one column short.     *)
kern_short(w) ==
    Array(w, w,
          [p \in (0..(w - 1)) \X (0..(w - 1)) |->
              IF p = <<0, 0>> \/ p = <<w - 1, w - 1>> THEN 1
              ELSE IF p = <<0, w - 1>> \/ p = <<w - 1, 0>> THEN 0 - 1
              ELSE 0])

(* kern: +1 at [0, 0] and [-1, -1], -1 at [0, -1] and [-1, 0].             *)
kern(w) ==
    Array(w + 1, w + 1,
          [p \in (0..w) \X (0..w) |->
              IF p = <<0, 0>> \/ p = <<w, w>> THEN 1
              ELSE IF p = <<0, w>> \/ p = <<w, 0>> THEN 0 - 1
              ELSE 0])

ones(h, w) == Array(h, w, [p \in (0..(h - 1)) \X (0..(w - 1)) |-> 1])

(* Reading input[i, j] beyond the border: 0 (mode 'constant'), the nearest *)
(* border element (mode 'nearest') or the mirrored one (mode 'reflect').   *)
Clamp(i, n) == IF i < 0 THEN 0 ELSE IF i > n - 1 THEN n - 1 ELSE i

Reflect(i, n) ==
    LET j == i % (2 * n) IN IF j >= n THEN 2 * n - 1 - j ELSE j

ReadAt(a, i, j, mode) ==
    IF mode = "constant"
    THEN IF i < 0 \/ i >= a.h \/ j < 0 \/ j >= a.w THEN 0 ELSE a.px[<<i, j>>]
    ELSE IF mode = "nearest"
    THEN a.px[<<Clamp(i, a.h), Clamp(j, a.w)>>]
    ELSE a.px[<<Reflect(i, a.h), Reflect(j, a.w)>>]

(* scipy.ndimage places weights of size n with their element n // 2 on the *)
(* pixel; a convolution mirrors the weights and, for an even n, moves the  *)
(* origin by -1: the mirrored weight a meets input[i + a - filter_shift].  *)
filter_shift(n) == (n \div 2) + (IF n % 2 = 0 THEN 0 - 1 ELSE 0)

(* scipy.ndimage.convolve(input, weights, mode=mode)                       *)
convolve(input, weights, mode) ==
    Array(input.h, input.w,
          [p \in Idx(input) |->
              SumFn([a \in 0..(weights.h - 1) |->
                  SumFn([b \in 0..(weights.w - 1) |->
                      LET wt == weights.px[<<weights.h - 1 - a, weights.w - 1 - b>>]
                      IN  IF wt = 0 THEN 0
                          ELSE wt * ReadAt(input,
                                           p[1] + a - filter_shift(weights.h),
                                           p[2] + b - filter_shift(weights.w), mode)],
                      weights.w - 1)],
                  weights.h - 1)])

----------------------------------------------------------------------------
(* _mean_std                                                               *)

Failed(e, tr) == [res |-> [kind |-> e, value |-> 0], trace |-> tr]

(* The window is checked first; np.zeros((w + 1, w + 1)) raises ValueError *)
(* for a negative dimension and kern[0, 0] raises IndexError on an empty   *)
(* kern, both after the integral image is built.  m = S / w2 and           *)
(* s = sqrt((sum_g2 - w2 * m ** 2) / w2) = sqrt(sum_g2 * w2 - S ** 2) / w2 *)
(* with S the window sum read from the integral image.                     *)
_mean_std(img, w) ==
    IF w = 1 \/ w % 2 = 0 THEN Failed("ValueError", <<>>)
    ELSE IF w + 1 < 0 THEN Failed("ValueError", <<"integral_image">>)
    ELSE IF w + 1 = 0 THEN Failed("IndexError", <<"integral_image", "kern">>)
    ELSE LET I == pad_top_left(integral_image(img))
             w2 == convolve(ones(img.h, img.w), ones(w, w), "constant")
             S == convolve(I, kern(w), "nearest")
             g2 == Array(img.h, img.w, [p \in Idx(img) |-> img.px[p] * img.px[p]])
             sum_g2 == convolve(g2, ones(w, w), "constant")
         IN  [res |-> [kind |-> "stats",
                       m |-> [p \in Idx(img) |-> Rat(S.px[p], w2.px[p] * img.unit)],
                       s |-> [p \in Idx(img) |->
                                SqrtOver(sum_g2.px[p] * w2.px[p] - S.px[p] * S.px[p],
                                         w2.px[p] * img.unit)]],
              trace |-> <<"integral_image", "kern", "w2", "m", "s">>]

----------------------------------------------------------------------------
(* threshold_niblack, threshold_sauvola, threshold_adaptive                *)

Pixel(img, p) == Rat(img.px[p], img.unit)

One == NumOfRat(RInt(1))

(* The comparison with the offset added to the threshold.                  *)
classify_offset_added(img, t, offset) ==
    [p \in Idx(img) |-> NumGt(Pixel(img, p), NumAdd(t[p], NumOfRat(RInt(offset))))]

(* image > (t - offset)                                                    *)
classify(img, t, offset) ==
    [p \in Idx(img) |-> NumGt(Pixel(img, p), NumSub(t[p], NumOfRat(RInt(offset))))]

Returned(img, t, offset, tr) ==
    [res |-> [kind |-> "image", value |-> classify(img, t, offset), t |-> t],
     trace |-> tr]

(* t = m - k * s                                                           *)
threshold_niblack(img, w, k, offset) ==
    LET ms == _mean_std(img, w)
    IN  IF ms.res.kind # "stats" THEN ms
        ELSE LET t == [p \in Idx(img) |->
                          NumSub(NumOfRat(ms.res.m[p]), NumScale(ms.res.s[p], k))]
             IN  Returned(img, t, offset, ms.trace)

(* s.max() and image.min()                                                 *)
surface_max(s) ==
    LET vals == { s[p] : p \in DOMAIN s }
    IN  CHOOSE x \in vals : \A y \in vals : SurdLe(y, x)

image_min(img) ==
    LET vals == { img.px[p] : p \in Idx(img) }
    IN  CHOOSE x \in vals : \A y \in vals : x <= y

(* t = m * (1 + k * ((s / r) - 1))                                         *)
t_sauvola(m, s, k, r) ==
    [p \in DOMAIN m |->
        NumMul(NumOfRat(m[p]),
               NumAdd(One, NumScale(NumSub(NumDiv(s[p], NumOfRat(r)), One), k)))]

(* t = (1 - k) * m + k * M + k * (s / R) * (m - M)                         *)
t_wolf(m, s, k, R, M) ==
    [p \in DOMAIN m |->
        NumAdd(NumOfRat(RAdd(RMul(RSub(RInt(1), k), m[p]), RMul(k, RInt(M)))),
               NumScale(NumDiv(s[p], R), RMul(k, RSub(m[p], RInt(M)))))]

(* p * np.exp(-q * m), for the parameters where it is rational: 0 for      *)
(* p = 0 and p for q = 0.                                                  *)
p_exp(p, q, m) == CASE p = 0 -> RInt(0) [] q = 0 -> RInt(p)

(* t = m * (1 + p * np.exp(-q * m) + k * ((s / rn) - 1))                   *)
t_phansalkar(m, s, k, rn, p, q) ==
    [x \in DOMAIN m |->
        NumMul(NumOfRat(m[x]),
               NumAdd(NumOfRat(RAdd(RInt(1), p_exp(p, q, m[x]))),
                      NumScale(NumSub(NumDiv(s[x], NumOfRat(rn)), One), k)))]

(* image.astype(np.float) / 255.                                           *)
normalized(img) == [img EXCEPT !.unit = 255]

Methods == {"sauvola", "wolf", "phansalkar"}

(* t is allocated and the statistics are computed before the method is     *)
(* looked at; 'phansalkar' computes the statistics a second time, on the   *)
(* normalized image, and compares the normalized image.                    *)
threshold_sauvola(img, method, w, k, r, offset, p, q) ==
    LET ms == _mean_std(img, w)
        tr == <<"zeros_like">> \o ms.trace
    IN  IF ms.res.kind # "stats" THEN Failed(ms.res.kind, tr)
        ELSE IF method = "sauvola"
        THEN Returned(img, t_sauvola(ms.res.m, ms.res.s, k, RInt(r)), offset, tr)
        ELSE IF method = "wolf"
        THEN Returned(img, t_wolf(ms.res.m, ms.res.s, k,
                                  surface_max(ms.res.s), image_min(img)),
                      offset, tr)
        ELSE IF method = "phansalkar"
        THEN LET img2 == normalized(img)
                 ms2 == _mean_std(img2, w)
             IN  Returned(img2, t_phansalkar(ms2.res.m, ms2.res.s, k,
                                             Rat(r, 255), p, q),
                          offset, tr \o ms2.trace)
        ELSE Failed("ValueError", tr)

(* threshold_adaptive with mode 'reflect'.  Method 'mean' convolves the    *)
(* rows and then the columns with 1. / block_size * np.ones((block_size,)) *)
(* (ZeroDivisionError for 0, ValueError of np.ones for a negative size);   *)
(* a method that is none of the four leaves thresh_image at zero.  The     *)
(* block size is never checked.  The methods 'generic', 'gaussian' and     *)
(* 'median' are not modelled.                                              *)
threshold_adaptive(img, block_size, method, offset) ==
    IF method = "mean"
    THEN IF block_size = 0 THEN Failed("ZeroDivisionError", <<"zeros">>)
         ELSE IF block_size < 0 THEN Failed("ValueError", <<"zeros">>)
         ELSE LET rows == convolve(img, ones(block_size, 1), "reflect")
                  both == convolve(rows, ones(1, block_size), "reflect")
                  t == [p \in Idx(img) |->
                           NumOfRat(Rat(both.px[p], block_size * block_size))]
              IN  Returned(img, t, offset, <<"zeros", "mask", "thresh_image">>)
    ELSE Returned(img, [p \in Idx(img) |-> NumOfRat(RInt(0))], offset, <<"zeros">>)

----------------------------------------------------------------------------
(* The local engines as a state machine over one image.                    *)

(* The images: one intensity everywhere but at the pixels of `spots`.      *)
ImagesOf(shapes, nspots) ==
    UNION { { [h |-> sh[1], w |-> sh[2], unit |-> 1,
               px |-> [q \in (0..(sh[1] - 1)) \X (0..(sh[2] - 1)) |->
                          IF q \in spots THEN v ELSE bg]] :
                bg \in 0..MaxPix, v \in 0..MaxPix,
                spots \in { ss \in SUBSET ((0..(sh[1] - 1)) \X (0..(sh[2] - 1))) :
                               Cardinality(ss) <= nspots } } :
            sh \in shapes }

(* The images given to _mean_std alone, and to the threshold engines.      *)
StatsImages == ImagesOf({<<1, 2>>, <<2, 3>>, <<3, 3>>}, MaxSpots)
Images == ImagesOf({<<1, 2>>, <<3, 3>>}, 1)

Windows == {0 - 3, 0 - 1, 0, 1, 2, 3, 4, 5}
EngineWindows == {0 - 1, 0, 1, 2, 3, 5}
Ks == {Rat(1, 5), Rat(0 - 1, 5)}
Offsets == {0 - 1, 0, 1}
Rs == {128}
PQs == {<<0, 10>>, <<2, 0>>}
DefaultPQ == <<2, 10>>

InitOn(images) ==
    /\ image \in images
    /\ hist = <<>>
    /\ bin_centers = <<>>
    /\ pc = "idle"
    /\ call = [op |-> "none"]
    /\ result = NoResult
    /\ trace = <<>>

MeanStd ==
    /\ pc = "idle"
    /\ \E w \in Windows :
          LET out == _mean_std(image, w)
          IN  /\ call' = [op |-> "_mean_std", w |-> w]
              /\ result' = out.res
              /\ trace' = out.trace
    /\ pc' = "done"
    /\ UNCHANGED <<image, hist, bin_centers>>

Niblack ==
    /\ pc = "idle"
    /\ \E w \in EngineWindows, k \in Ks, offset \in Offsets :
          LET out == threshold_niblack(image, w, k, offset)
          IN  /\ call' = [op |-> "threshold_niblack", w |-> w, k |-> k,
                          offset |-> offset]
              /\ result' = out.res
              /\ trace' = out.trace
    /\ pc' = "done"
    /\ UNCHANGED <<image, hist, bin_centers>>

Sauvola ==
    /\ pc = "idle"
    /\ \E method \in Methods \cup {"unknown"}, w \in EngineWindows, k \in Ks,
          r \in Rs, offset \in Offsets :
          \E pq \in (IF method = "phansalkar" THEN PQs ELSE {DefaultPQ}) :
              LET out == threshold_sauvola(image, method, w, k, r, offset,
                                           pq[1], pq[2])
              IN  /\ call' = [op |-> "threshold_sauvola", method |-> method,
                              w |-> w, k |-> k, r |-> r, offset |-> offset,
                              p |-> pq[1], q |-> pq[2]]
                  /\ result' = out.res
                  /\ trace' = out.trace
    /\ pc' = "done"
    /\ UNCHANGED <<image, hist, bin_centers>>

Adaptive ==
    /\ pc = "idle"
    /\ \E block_size \in EngineWindows \cup {4}, method \in {"mean", "unknown"},
          offset \in Offsets :
          LET out == threshold_adaptive(image, block_size, method, offset)
          IN  /\ call' = [op |-> "threshold_adaptive", w |-> block_size,
                          method |-> method, offset |-> offset]
              /\ result' = out.res
              /\ trace' = out.trace
    /\ pc' = "done"
    /\ UNCHANGED <<image, hist, bin_centers>>

NextStats == MeanStd \/ Return

InitStats == InitOn(StatsImages)

SpecStats == InitStats /\ [][NextStats]_vars

NextLocal == Niblack \/ Sauvola \/ Adaptive \/ Return

InitLocal == InitOn(Images)

SpecLocal == InitLocal /\ [][NextLocal]_vars

----------------------------------------------------------------------------
(* Properties of the global selectors.                                     *)

Done(op) == pc = "done" /\ call.op = op

nbins == Len(hist)

RECURSIVE SumOver(_, _)
SumOver(f, S) ==
    IF S = {} THEN 0
    ELSE LET i == CHOOSE j \in S : TRUE
         IN  f[i] + SumOver(f, S \ {i})

NonEmptyBins == { i \in 1..nbins : hist[i] # 0 }

(* The sums of counts[i] and of counts[i] * x[i] over the bins of S.       *)
CountIn(S) == SumOver(hist, S)
WeightedIn(x, S) == SumOver([i \in S |-> hist[i] * x[i]], S)

(* The between-class variance of the split after bin k (bins 1..k against  *)
(* bins k+1..nbins), from the sums themselves.                             *)
BetweenClassVariance(ne, k) ==
    LET lo == { i \in ne : i <= k }
        hi == { i \in ne : i > k }
        d == RSub(Rat(WeightedIn(bin_centers, lo), CountIn(lo)),
                  Rat(WeightedIn(bin_centers, hi), CountIn(hi)))
    IN  RMul(RInt(CountIn(lo) * CountIn(hi)), RMul(d, d))

(* allmean[k] with the true bin ordinals 0..nbins-1.                       *)
Ordinals == [i \in 1..nbins |-> i - 1]

TrueAllMean(ne, k) ==
    LET lo == { i \in ne : i <= k }
        hi == { i \in ne : i >= k }
    IN  RDiv(RAdd(Rat(WeightedIn(Ordinals, lo), CountIn(lo)),
                  Rat(WeightedIn(Ordinals, hi), CountIn(hi))), RInt(2))

(* The bin whose center the call returned (centers are distinct).          *)
ReturnedBin == CHOOSE k \in 1..nbins : bin_centers[k] = result.value

(* C1: on an image of a single intensity v (a histogram of one bin with    *)
(* center v) each of threshold_otsu, threshold_yen and threshold_isodata   *)
(* returns v and raises nothing.                                           *)
C1_SingleValueReturned ==
    (pc = "done" /\ nbins = 1) => result = Value(bin_centers[1])

(* The histogram has its pixels in two bins only, the first (lo) and the   *)
(* last (hi), with every bin between them empty.                           *)
TwoModes == nbins >= 2 /\ \A i \in 2..(nbins - 1) : hist[i] = 0

(* C4, as claimed: on a two-mode histogram threshold_otsu returns t with   *)
(* lo < t < hi, strictly on both sides.                                    *)
C4_OtsuStrictlyBetweenModes ==
    (Done("threshold_otsu") /\ TwoModes) =>
        /\ result.kind = "value"
        /\ bin_centers[1] < result.value
        /\ result.value < bin_centers[nbins]

(* C4, amended: on a two-mode histogram threshold_otsu returns t with      *)
(* lo <= t < hi; every split has the same variance and the first one wins, *)
(* so t = lo.                                                              *)
C4_OtsuAtLowerMode ==
    (Done("threshold_otsu") /\ TwoModes) =>
        /\ result.kind = "value"
        /\ result.value = bin_centers[1]
        /\ bin_centers[1] <= result.value
        /\ result.value < bin_centers[nbins]

C4_Witness ==
    /\ Done("threshold_otsu") /\ TwoModes /\ nbins >= 3
    /\ result.kind = "value"

(* C5: with at least two bins threshold_otsu returns bin_centers[k*] for   *)
(* the smallest k* among the first nbins-1 bins that maximizes the         *)
(* between-class variance of the split after k*.                           *)
C5_OtsuFirstMaximizer ==
    (Done("threshold_otsu") /\ nbins >= 2) =>
        /\ result.kind = "value"
        /\ \E k \in 1..(nbins - 1) : bin_centers[k] = result.value
        /\ LET ne == NonEmptyBins
               v == [k \in 1..(nbins - 1) |-> BetweenClassVariance(ne, k)] \o <<>>
               ks == ReturnedBin
           IN  /\ \A j \in 1..(nbins - 1) : RLe(v[j], v[ks])
               /\ \A j \in 1..(ks - 1) : RLt(v[j], v[ks])

(* A histogram where the maximum is reached at more than one split and     *)
(* not at the first split.                                                 *)
C5_Witness ==
    /\ Done("threshold_otsu") /\ nbins >= 3 /\ result.kind = "value"
    /\ result.value > bin_centers[1]
    /\ LET v == variance12(hist, bin_centers)
       IN  \E j \in 1..(nbins - 1) :
               bin_centers[j] > result.value /\ v[j] = v[ReturnedBin]

(* C6: with at least two bins, more than 256 included, threshold_isodata   *)
(* returns the center of the first bin k whose rounded allmean[k], taken   *)
(* over the true bin ordinals 0..nbins-1, equals k.                        *)
C6_IsodataFirstMatchOnOrdinals ==
    (Done("threshold_isodata") /\ nbins >= 2) =>
        /\ result.kind = "value"
        /\ LET ne == NonEmptyBins
               ks == ReturnedBin
           IN  /\ Round(TrueAllMean(ne, ks)) = ks - 1
               /\ \A j \in 1..(ks - 1) : Round(TrueAllMean(ne, j)) # j - 1

(* C9: with at least two bins and pixels in the first and the last bin,    *)
(* some bin k has round(allmean[k]) == k: threshold_isodata returns a      *)
(* threshold and never indexes an empty match list.                        *)
C9_IsodataAlwaysMatches ==
    (Done("threshold_isodata") /\ nbins >= 2) =>
        /\ result.kind = "value"
        /\ \E k \in 1..nbins :
              /\ Round(allmean(hist)[k]) = binnums(nbins)[k]
              /\ bin_centers[k] = result.value

C9_Witness ==
    /\ Done("threshold_isodata") /\ nbins > UINT8_RANGE
    /\ result.kind = "value" /\ result.value > 0

----------------------------------------------------------------------------
(* Properties of the local engines.                                        *)

(* _mean_std by brute force: the pixels of the w x w window centered on p  *)
(* that lie in the image.                                                  *)
WindowOf(p, w) ==
    { q \in Idx(image) : Abs(q[1] - p[1]) <= w \div 2 /\ Abs(q[2] - p[2]) <= w \div 2 }

BruteMean(p, w) ==
    LET win == WindowOf(p, w)
    IN  Rat(SumOver(image.px, win), Cardinality(win))

BruteVariance(p, w) ==
    LET win == WindowOf(p, w)
        n == Cardinality(win)
        mean == Rat(SumOver(image.px, win), n)
    IN  RSub(Rat(SumOver([q \in win |-> image.px[q] * image.px[q]], win), n),
             RMul(mean, mean))

(* The square of a standard deviation b * sqrt(root).                      *)
Squared(x) == RMul(RMul(x.b, x.b), RInt(x.root))

(* C7: for an odd window w > 1, _mean_std returns at every pixel the mean  *)
(* and the standard deviation of the window cropped to the image, as a     *)
(* brute-force pass over the window computes them.                         *)
C7_MeanStdIsBruteForce ==
    (Done("_mean_std") /\ call.w > 1 /\ call.w % 2 = 1) =>
        /\ result.kind = "stats"
        /\ \A p \in Idx(image) :
              /\ result.m[p] = BruteMean(p, call.w)
              /\ result.s[p].a.num = 0
              /\ Squared(result.s[p]) = BruteVariance(p, call.w)

(* A 3 x 3 image with a 3 x 3 window: corner, edge and interior pixels,    *)
(* the interior one with a standard deviation that is not zero.            *)
C7_Witness ==
    /\ Done("_mean_std") /\ call.w = 3 /\ image.h = 3 /\ image.w = 3
    /\ result.kind = "stats"
    /\ result.s[<<1, 1>>].root > 0
    /\ result.m[<<0, 0>>] # result.m[<<1, 1>>]

Engines == {"threshold_niblack", "threshold_sauvola", "threshold_adaptive"}

(* The call of the state, made again with another offset.                  *)
Recall(offset) ==
    IF call.op = "threshold_niblack"
    THEN threshold_niblack(image, call.w, call.k, offset).res
    ELSE threshold_sauvola(image, call.method, call.w, call.k, call.r, offset,
                           call.p, call.q).res

StatEngineReturned ==
    /\ pc = "done"
    /\ call.op \in {"threshold_niblack", "threshold_sauvola"}
    /\ result.kind = "image"

(* C2, as claimed: for threshold_niblack and threshold_sauvola a pixel     *)
(* that is background at an offset is background at every larger offset.   *)
C2_LargerOffsetKeepsBackground ==
    StatEngineReturned =>
        \A o2 \in { o \in Offsets : o > call.offset } :
            LET again == Recall(o2)
            IN  \A p \in Idx(image) : ~result.value[p] => ~again.value[p]

(* C2, amended: a pixel that is foreground at an offset is foreground at   *)
(* every larger offset; a larger offset only turns background pixels into  *)
(* foreground pixels.                                                      *)
C2_LargerOffsetKeepsForeground ==
    StatEngineReturned =>
        \A o2 \in { o \in Offsets : o > call.offset } :
            LET again == Recall(o2)
            IN  \A p \in Idx(image) : result.value[p] => again.value[p]

(* A pixel that a larger offset turns from background into foreground.     *)
C2_Witness ==
    /\ StatEngineReturned
    /\ call.op = "threshold_sauvola"
    /\ \E o2 \in { o \in Offsets : o > call.offset } :
          LET again == Recall(o2)
          IN  \E p \in Idx(image) : ~result.value[p] /\ again.value[p]

(* C3: every local engine raises ValueError when its window size is even   *)
(* or at most 1, and returns a classification only for an odd window size  *)
(* above 1.                                                                *)
BadWindow(w) == w % 2 = 0 \/ w <= 1

C3_BadWindowRaisesValueError ==
    (pc = "done" /\ call.op \in Engines) =>
        /\ BadWindow(call.w) => result.kind = "ValueError"
        /\ result.kind = "image" => ~BadWindow(call.w)

(* C8: threshold_sauvola raises its invalid-parameter error (an unknown    *)
(* method, or a bad window) before it allocates an array or computes a     *)
(* local statistic.                                                        *)
C8_SauvolaFailsBeforeAnyWork ==
    (/\ Done("threshold_sauvola")
     /\ result.kind = "ValueError"
     /\ (call.method \notin Methods \/ BadWindow(call.w))) => trace = <<>>

(* C10: on an image of one intensity threshold_niblack and                 *)
(* threshold_sauvola (sauvola, wolf, phansalkar) divide nothing by zero:   *)
(* the threshold of every pixel is a number.                               *)
ConstantImage == \A p \in Idx(image), q \in Idx(image) : image.px[p] = image.px[q]

C10_ConstantImageThresholdsDefined ==
    (StatEngineReturned /\ ConstantImage) =>
        \A p \in Idx(image) : ~result.t[p].nan

====
